---- MODULE Spec2Model ----
(***************************************************************************)
(* Model of the clone detector's core data path:                           *)
(*   TreeNode (construction, dump, __eq__, __ne__),                        *)
(*   _flatten_module_nodes (breadth-first flattening of a TreeNode tree),  *)
(*   iodine (the report builder loop) and DetectionResult (sorted view).   *)
(*                                                                         *)
(* Python objects are modelled by identity: `heap` holds the TreeNode      *)
(* objects (object id = position in the heap), `lists` holds the list      *)
(* objects that DetectionResult copies and sorts in place.                 *)
(***************************************************************************)
EXTENDS Integers, Sequences, FiniteSets, TLC

VARIABLES
    heap,            \* TreeNode objects: object id -> fields
    module,          \* object id of the module root handed to the flattener
    module_nodes,    \* _flatten_module_nodes: list of visited object ids
    node_queue,      \* _flatten_module_nodes: deque of object ids
    flat,            \* the list returned by the last completed call
    ncalls,          \* number of _flatten_module_nodes calls started
    pc,              \* position of the running operation
    cmp,             \* operands and results of the last comparison
    lists,           \* list objects: list id -> sequence of clones
    arg,             \* list id of the caller's list given to DetectionResult
    given,           \* contents of the caller's list when it was handed over
    self_clones,     \* DetectionResult.clones (a list id)
    json_out,        \* the records emitted by DetectionResult.json()
    module_list_1,   \* iodine: first collection of modules
    module_list_2,   \* iodine: second collection of modules
    pos,             \* iodine: positions of the two nested loops
    clusters,        \* iodine: cluster lists collected so far
    engine_calls     \* log of the pattern_collection invocations

vars == <<heap, module, module_nodes, node_queue, flat, ncalls, pc, cmp,
          lists, arg, given, self_clones, json_out,
          module_list_1, module_list_2, pos, clusters, engine_calls>>

treeVars   == <<heap, module, module_nodes, node_queue, flat, ncalls>>
reportVars == <<lists, arg, given, self_clones, json_out>>
iodineVars == <<module_list_1, module_list_2, pos, clusters, engine_calls>>

(***************************************************************************)
(* Bounds of the model.                                                    *)
(***************************************************************************)
MaxNodes == 4        \* nodes of the raw tree that is flattened
MaxEqNodes == 3      \* nodes of each of the two raw trees that are compared
MaxCalls == 3        \* calls of _flatten_module_nodes on the same root
MaxClones == 3       \* length of the list given to DetectionResult
MaxWeight == 2       \* largest clone weight
SimScale == 2        \* similarity is s / SimScale for s in 0..SimScale
MaxModules == 3      \* modules in module_list_1 and module_list_2 together
MaxClusters == 2     \* patterns returned by one pattern_collection call

None == -1           \* Python's None in an integer field

(***************************************************************************)
(* Raw parser nodes.  A raw node has a class, one literal field (the id of *)
(* a Name, the literal attribute of any other class) and ordered children. *)
(* "Expr" is both a class name and an identifier, so that a Name's value   *)
(* can collide with the class-name value of another node.                  *)
(***************************************************************************)
RawLabels == { [cls |-> "Name", field |-> "x"],
               [cls |-> "Name", field |-> "Expr"],
               [cls |-> "Expr", field |-> "a"] }

RECURSIVE RawTreesOfSize(_), RawForests(_)
RawTreesOfSize(n) ==
    { [cls |-> l.cls, field |-> l.field, children |-> f] :
          l \in RawLabels, f \in RawForests(n - 1) }
RawForests(m) ==
    IF m = 0 THEN { <<>> }
    ELSE UNION { { <<t>> \o f : t \in RawTreesOfSize(k), f \in RawForests(m - k) } :
                 k \in 1..m }

RawTrees(n) == UNION { RawTreesOfSize(k) : k \in 1..n }

RECURSIVE RawSize(_), RawSizeAll(_)
RawSize(raw) == 1 + RawSizeAll(raw.children)
RawSizeAll(raws) ==
    IF raws = <<>> THEN 0 ELSE RawSize(Head(raws)) + RawSizeAll(Tail(raws))

(***************************************************************************)
(* ast.dump: the class, the literal field and the dumps of the children,   *)
(* in order, as a sequence of tokens.                                      *)
(***************************************************************************)
RECURSIVE AstDump(_), AstDumpAll(_)
AstDump(raw) ==
    <<raw.cls, "(", raw.field>> \o AstDumpAll(raw.children) \o <<")">>
AstDumpAll(raws) ==
    IF raws = <<>> THEN <<>>
    ELSE <<",">> \o AstDump(Head(raws)) \o AstDumpAll(Tail(raws))

(***************************************************************************)
(* TreeNode.__init__: the object is allocated, then its children are built *)
(* left to right, then weight and value are computed from them.            *)
(***************************************************************************)
RECURSIVE SumWeights(_, _)
SumWeights(h, ids) ==
    IF ids = <<>> THEN 0 ELSE h[Head(ids)].weight + SumWeights(h, Tail(ids))

NodeValue(raw, kids) ==
    IF raw.cls = "Name" THEN <<raw.field>>
    ELSE IF kids # <<>> THEN <<raw.cls>>
    ELSE AstDump(raw)

Placeholder == [node |-> <<>>, children |-> <<>>, weight |-> 0, value |-> <<>>,
                index |-> None, parent_index |-> None, child_indices |-> <<>>]

NodeWeightDirectOnly(h, kids) == 1 + Len(kids)
NodeWeight(h, kids) == 1 + SumWeights(h, kids)

RECURSIVE TreeNodeInit(_, _), TreeNodeInitAll(_, _, _)
TreeNodeInit(raw, h) ==
    LET self == Len(h) + 1
        r    == TreeNodeInitAll(raw.children, Append(h, Placeholder), <<>>)
        obj  == [node          |-> raw,
                 children      |-> r.ids,
                 weight        |-> NodeWeight(r.h, r.ids),
                 value         |-> NodeValue(raw, r.ids),
                 index         |-> None,
                 parent_index  |-> None,
                 child_indices |-> <<>>]
    IN [h |-> [r.h EXCEPT ![self] = obj], id |-> self]
TreeNodeInitAll(raws, h, ids) ==
    IF raws = <<>> THEN [h |-> h, ids |-> ids]
    ELSE LET r == TreeNodeInit(Head(raws), h)
         IN TreeNodeInitAll(Tail(raws), r.h, Append(ids, r.id))

dump(h, n) == AstDump(h[n].node)

Ids == DOMAIN heap

(***************************************************************************)
(* _flatten_module_nodes, one action per loop iteration.                   *)
(***************************************************************************)
IdleCmp == [a |-> 0, b |-> 0, eq_ab |-> "", eq_ba |-> "", ne_ab |-> ""]

ReportIdle ==
    /\ lists = <<>> /\ arg = 0 /\ given = <<>> /\ self_clones = 0
    /\ json_out = <<>>
IodineIdle ==
    /\ module_list_1 = <<>> /\ module_list_2 = <<>> /\ pos = <<1, 1>>
    /\ clusters = <<>> /\ engine_calls = <<>>

InitFlatten ==
    /\ \E raw \in RawTrees(MaxNodes) : heap = TreeNodeInit(raw, <<>>).h
    /\ module = 1
    /\ module_nodes = <<>> /\ node_queue = <<>> /\ flat = <<>> /\ ncalls = 0
    /\ pc = "built"
    /\ cmp = IdleCmp
    /\ ReportIdle /\ IodineIdle

\* lines 50-51: a call starts with an empty result and the root queued.
FlattenCall ==
    /\ pc \in {"built", "returned"}
    /\ ncalls < MaxCalls
    /\ module_nodes' = <<>>
    /\ node_queue' = <<module>>
    /\ ncalls' = ncalls + 1
    /\ pc' = "loop"
    /\ UNCHANGED <<heap, module, flat, cmp>>
    /\ UNCHANGED reportVars /\ UNCHANGED iodineVars

SetParentIndex(h, kids, idx) ==
    [i \in DOMAIN h |->
        IF \E k \in DOMAIN kids : kids[k] = i
        THEN [h[i] EXCEPT !.parent_index = idx] ELSE h[i]]

\* deque.pop(): the right end of the queue is taken.
PopRight(q) == [n |-> q[Len(q)], rest |-> SubSeq(q, 1, Len(q) - 1)]
\* line 54: deque.popleft()
PopLeft(q) == [n |-> Head(q), rest |-> Tail(q)]

\* The child's index is put in front of the parent's child_indices.
LinkChildInFront(h, pidx, idx) ==
    [h EXCEPT ![module_nodes[pidx + 1]].child_indices = <<idx>> \o @]
\* The child's index is added only when the parent does not list it yet.
LinkChildOnce(h, pidx, idx) ==
    [h EXCEPT ![module_nodes[pidx + 1]].child_indices =
        IF \E k \in DOMAIN @ : @[k] = idx THEN @ ELSE Append(@, idx)]
\* line 62: module_nodes[n.parent_index].child_indices.append(n.index)
LinkChild(h, pidx, idx) ==
    [h EXCEPT ![module_nodes[pidx + 1]].child_indices = Append(@, idx)]

\* lines 54-72: one iteration of the while loop.
FlattenStep ==
    /\ pc = "loop"
    /\ node_queue # <<>>
    /\ LET n    == PopLeft(node_queue).n
           rest == PopLeft(node_queue).rest
           idx  == Len(module_nodes)
           h1   == [heap EXCEPT ![n].index = idx]
           pidx == h1[n].parent_index
       IN IF pidx # None /\ ~(pidx + 1 \in DOMAIN module_nodes)
          THEN /\ pc' = "IndexError"
               /\ heap' = h1
               /\ UNCHANGED <<module_nodes, node_queue>>
          ELSE LET h2 == IF pidx # None THEN LinkChild(h1, pidx, idx) ELSE h1
                   h3 == SetParentIndex(h2, h2[n].children, idx)
               IN /\ heap' = h3
                  /\ node_queue' = rest \o h3[n].children
                  /\ module_nodes' = Append(module_nodes, n)
                  /\ pc' = "loop"
    /\ UNCHANGED <<module, flat, ncalls, cmp>>
    /\ UNCHANGED reportVars /\ UNCHANGED iodineVars

\* line 74: the loop ends when the queue is empty.
FlattenReturn ==
    /\ pc = "loop"
    /\ node_queue = <<>>
    /\ flat' = module_nodes
    /\ pc' = "returned"
    /\ UNCHANGED <<heap, module, module_nodes, node_queue, ncalls, cmp>>
    /\ UNCHANGED reportVars /\ UNCHANGED iodineVars

NextFlatten == FlattenCall \/ FlattenStep \/ FlattenReturn

SpecFlatten == InitFlatten /\ [][NextFlatten]_vars

\* The loop is straight-line code: once started it keeps running.
FairSpecFlatten ==
    SpecFlatten /\ WF_vars(FlattenStep) /\ WF_vars(FlattenReturn)

(***************************************************************************)
(* Reference notions used to state the flattening properties.              *)
(***************************************************************************)
RECURSIVE ChildrenOfAll(_, _)
ChildrenOfAll(h, ids) ==
    IF ids = <<>> THEN <<>>
    ELSE h[Head(ids)].children \o ChildrenOfAll(h, Tail(ids))

\* Level order: the root, then its children, then their children, ...
RECURSIVE LevelOrder(_, _)
LevelOrder(h, level) ==
    IF level = <<>> THEN <<>>
    ELSE level \o LevelOrder(h, ChildrenOfAll(h, level))

RECURSIVE Reachable(_, _)
Reachable(h, n) ==
    {n} \cup UNION { Reachable(h, h[n].children[k]) : k \in DOMAIN h[n].children }

RECURSIVE Repeat(_, _)
Repeat(s, k) == IF k = 0 THEN <<>> ELSE s \o Repeat(s, k - 1)

Occurrences(s, x) == Cardinality({ i \in DOMAIN s : s[i] = x })

\* The flat indices of the children of n, in the order of n.children.
ChildPositions(n) == [k \in DOMAIN heap[n].children |-> heap[heap[n].children[k]].index]

HasParent(c) == \E p \in Ids : \E k \in DOMAIN heap[p].children : heap[p].children[k] = c
ParentOf(c) == CHOOSE p \in Ids : \E k \in DOMAIN heap[p].children : heap[p].children[k] = c

\* Some node has two children and some child has a child of its own.
BranchingAndDeep ==
    /\ \E n \in Ids : Len(heap[n].children) >= 2
    /\ \E n \in Ids : n # module /\ heap[n].children # <<>>

(***************************************************************************)
(* C1: after one run of _flatten_module_nodes on a freshly built tree the  *)
(* flat list encodes the tree: for every node of the list, child_indices   *)
(* has the length of children and its k-th entry is the flat index of the  *)
(* k-th child; every non-root node has a parent_index whose owner lists    *)
(* the node's index in its child_indices; the root's parent_index is None. *)
(***************************************************************************)
C1_FlatEncodesTree ==
    (pc = "returned" /\ ncalls = 1) =>
        \A p \in DOMAIN flat :
            LET n == heap[flat[p]] IN
            /\ Len(n.child_indices) = Len(n.children)
            /\ \A k \in DOMAIN n.children :
                   /\ n.child_indices[k] + 1 \in DOMAIN flat
                   /\ flat[n.child_indices[k] + 1] = n.children[k]
            /\ IF flat[p] = module
               THEN n.parent_index = None
               ELSE /\ n.parent_index # None
                    /\ n.parent_index + 1 \in DOMAIN flat
                    /\ Occurrences(heap[flat[n.parent_index + 1]].child_indices,
                                   n.index) >= 1

C1_Witness ==
    /\ pc = "returned" /\ ncalls = 1
    /\ Len(flat) >= 4
    /\ BranchingAndDeep

(***************************************************************************)
(* C2: _flatten_module_nodes terminates, and the list it returns is the    *)
(* breadth-first order of the tree: every node reachable from the root     *)
(* occurs exactly once, position 0 holds the root, the node at position i  *)
(* has index i, and the length of the list is the root's weight.           *)
(***************************************************************************)
FlatIsBreadthFirst ==
    /\ flat = LevelOrder(heap, <<module>>)
    /\ \A n \in Reachable(heap, module) : Occurrences(flat, n) = 1
    /\ \A p \in DOMAIN flat : flat[p] \in Reachable(heap, module)
    /\ flat[1] = module
    /\ \A p \in DOMAIN flat : heap[flat[p]].index = p - 1
    /\ Len(flat) = heap[module].weight

C2_FlattenTerminatesBreadthFirst ==
    /\ [](pc = "returned" => FlatIsBreadthFirst)
    /\ (pc = "loop") ~> (pc = "returned")

C2_Witness ==
    /\ pc = "returned"
    /\ Len(flat) >= 4
    /\ BranchingAndDeep
    /\ \E p \in DOMAIN flat : flat[p] # p

(***************************************************************************)
(* C3: every TreeNode's weight is 1 plus the sum of the weights of its     *)
(* direct children, which is the number of nodes of its subtree; this      *)
(* holds after construction and in every state of the flattening.          *)
(***************************************************************************)
C3_WeightInvariant ==
    \A n \in Ids :
        /\ heap[n].weight = 1 + SumWeights(heap, heap[n].children)
        /\ heap[n].weight = RawSize(heap[n].node)
        /\ heap[n].weight = Cardinality(Reachable(heap, n))
        /\ (heap[n].children = <<>> => heap[n].weight = 1)

C3_Witness ==
    /\ pc = "returned"
    /\ heap[module].weight >= 4
    /\ \E n \in Ids : n # module /\ heap[n].weight >= 2

(***************************************************************************)
(* C9: flattening again is not idempotent on the node fields.  Every call  *)
(* returns the same breadth-first list and never changes an index or a     *)
(* parent_index that an earlier call has set, but appends each child's     *)
(* index to its parent's child_indices again: after k calls child_indices  *)
(* is the sequence of the children's indices repeated k times.             *)
(***************************************************************************)
C9_RepeatedFlatten ==
    /\ [](pc = "returned" =>
            /\ flat = LevelOrder(heap, <<module>>)
            /\ \A n \in Ids :
                 /\ heap[n].index + 1 \in DOMAIN flat /\ flat[heap[n].index + 1] = n
                 /\ heap[n].parent_index =
                        (IF HasParent(n) THEN heap[ParentOf(n)].index ELSE None)
                 /\ heap[n].child_indices = Repeat(ChildPositions(n), ncalls)
                 /\ Len(heap[n].child_indices) = ncalls * Len(heap[n].children))
    /\ [][ncalls >= 2 =>
            \A n \in Ids : /\ heap'[n].index = heap[n].index
                           /\ heap'[n].parent_index = heap[n].parent_index]_vars

C9_Witness ==
    /\ pc = "returned" /\ ncalls >= 2
    /\ \E n \in Ids : Len(heap[n].children) >= 2 /\ Len(heap[n].child_indices) >= 4
    /\ \E n \in Ids : n # module /\ heap[n].children # <<>>

(***************************************************************************)
(* TreeNode.__eq__ and TreeNode.__ne__.  A call returns "True" or "False"  *)
(* or raises; "IndexError" stands for self.children[i] out of range.       *)
(***************************************************************************)
PyNot(r) == IF r = "True" THEN "False" ELSE IF r = "False" THEN "True" ELSE r

\* Variant without the comparison of the two values.
RECURSIVE EqNoValueTest(_, _, _), EqNoValueTestFrom(_, _, _, _)
EqNoValueTest(h, self, other) ==
    IF dump(h, other) = dump(h, self) THEN "True"
    ELSE IF Len(h[other].children) # Len(h[self].children) THEN "False"
    ELSE EqNoValueTestFrom(h, self, other, 1)
EqNoValueTestFrom(h, self, other, i) ==
    IF i > Len(h[other].children) THEN "True"
    ELSE IF ~(i \in DOMAIN h[self].children) THEN "IndexError"
    ELSE LET r == EqNoValueTest(h, h[other].children[i], h[self].children[i])
         IN IF r = "True" THEN EqNoValueTestFrom(h, self, other, i + 1) ELSE r

\* Variant without the comparison of the two child counts.
RECURSIVE EqNoLengthTest(_, _, _), EqNoLengthTestFrom(_, _, _, _)
EqNoLengthTest(h, self, other) ==
    IF dump(h, other) = dump(h, self) THEN "True"
    ELSE IF h[other].value # h[self].value THEN "False"
    ELSE EqNoLengthTestFrom(h, self, other, 1)
EqNoLengthTestFrom(h, self, other, i) ==
    IF i > Len(h[other].children) THEN "True"
    ELSE IF ~(i \in DOMAIN h[self].children) THEN "IndexError"
    ELSE LET r == EqNoLengthTest(h, h[other].children[i], h[self].children[i])
         IN IF r = "True" THEN EqNoLengthTestFrom(h, self, other, i + 1) ELSE r

\* Variant that rejects only when the other node has more children.
RECURSIVE EqOneSidedLength(_, _, _), EqOneSidedLengthFrom(_, _, _, _)
EqOneSidedLength(h, self, other) ==
    IF dump(h, other) = dump(h, self) THEN "True"
    ELSE IF h[other].value # h[self].value THEN "False"
    ELSE IF Len(h[other].children) > Len(h[self].children) THEN "False"
    ELSE EqOneSidedLengthFrom(h, self, other, 1)
EqOneSidedLengthFrom(h, self, other, i) ==
    IF i > Len(h[other].children) THEN "True"
    ELSE IF ~(i \in DOMAIN h[self].children) THEN "IndexError"
    ELSE LET r == EqOneSidedLength(h, h[other].children[i], h[self].children[i])
         IN IF r = "True" THEN EqOneSidedLengthFrom(h, self, other, i + 1) ELSE r

\* lines 72-85.  Every heap object is a TreeNode, so the isinstance test
\* of line 72 passes.  The loop calls other.children[i].__eq__ with
\* self.children[i] as its argument: the operands swap at each level.
RECURSIVE Eq(_, _, _), EqFrom(_, _, _, _)
Eq(h, self, other) ==
    IF dump(h, other) = dump(h, self) THEN "True"
    ELSE IF h[other].value # h[self].value THEN "False"
    ELSE IF Len(h[other].children) # Len(h[self].children) THEN "False"
    ELSE EqFrom(h, self, other, 1)
\* lines 81-85: the loop from its i-th iteration on.
EqFrom(h, self, other, i) ==
    IF i > Len(h[other].children) THEN "True"
    ELSE IF ~(i \in DOMAIN h[self].children) THEN "IndexError"
    ELSE LET r == Eq(h, h[other].children[i], h[self].children[i])
         IN IF r = "True" THEN EqFrom(h, self, other, i + 1) ELSE r

\* lines 87-88
Ne(h, self, other) == PyNot(Eq(h, self, other))

(***************************************************************************)
(* Comparison of the roots of two trees built from two raw trees.          *)
(***************************************************************************)
InitEq ==
    /\ \E rawA \in RawTrees(MaxEqNodes), rawB \in RawTrees(MaxEqNodes) :
          LET ra == TreeNodeInit(rawA, <<>>)
              rb == TreeNodeInit(rawB, ra.h)
          IN /\ heap = rb.h
             /\ cmp = [IdleCmp EXCEPT !.a = ra.id, !.b = rb.id]
    /\ module = 1
    /\ module_nodes = <<>> /\ node_queue = <<>> /\ flat = <<>> /\ ncalls = 0
    /\ pc = "built"
    /\ ReportIdle /\ IodineIdle

\* a == b, b == a and a != b are evaluated on the two roots.
Compare ==
    /\ pc = "built"
    /\ cmp.a # 0
    /\ cmp' = [cmp EXCEPT !.eq_ab = Eq(heap, cmp.a, cmp.b),
                          !.eq_ba = Eq(heap, cmp.b, cmp.a),
                          !.ne_ab = Ne(heap, cmp.a, cmp.b)]
    /\ pc' = "compared"
    /\ UNCHANGED treeVars /\ UNCHANGED reportVars /\ UNCHANGED iodineVars

NextEq == Compare

SpecEq == InitEq /\ [][NextEq]_vars

\* The four-step rule, with the operands kept in place at every level.
RECURSIVE RuleEqual(_, _, _)
RuleEqual(h, a, b) ==
    IF AstDump(h[a].node) = AstDump(h[b].node) THEN TRUE
    ELSE IF h[a].value # h[b].value THEN FALSE
    ELSE IF Len(h[a].children) # Len(h[b].children) THEN FALSE
    ELSE \A k \in DOMAIN h[a].children :
             RuleEqual(h, h[a].children[k], h[b].children[k])

(***************************************************************************)
(* C4: a == b never fails and returns the result of the four-step rule:    *)
(* True on identical dumps, else False on different values, else False on  *)
(* different child counts, else True iff the children are equal pairwise   *)
(* by position.                                                            *)
(***************************************************************************)
C4_EqIsFourStepRule ==
    pc = "compared" =>
        cmp.eq_ab = (IF RuleEqual(heap, cmp.a, cmp.b) THEN "True" ELSE "False")

\* equal by the recursive steps although the dumps differ, two levels deep
C4_Witness ==
    /\ pc = "compared" /\ cmp.eq_ab = "True"
    /\ dump(heap, cmp.a) # dump(heap, cmp.b)
    /\ \E k \in DOMAIN heap[cmp.a].children :
           heap[heap[cmp.a].children[k]].children # <<>>

(***************************************************************************)
(* C5: equal nodes have equal weight and equal value, whichever step of    *)
(* the comparison decides the equality.                                    *)
(***************************************************************************)
C5_EqCongruence ==
    (pc = "compared" /\ cmp.eq_ab = "True") =>
        /\ heap[cmp.a].weight = heap[cmp.b].weight
        /\ heap[cmp.a].value = heap[cmp.b].value

C5_Witness ==
    /\ pc = "compared" /\ cmp.eq_ab = "True"
    /\ dump(heap, cmp.a) # dump(heap, cmp.b)
    /\ heap[cmp.a].weight >= 3

(***************************************************************************)
(* C10: equality is symmetric, a == b is the same boolean as b == a, and   *)
(* a != b is the negation of a == b.                                       *)
(***************************************************************************)
C10_EqSymmetric ==
    pc = "compared" =>
        /\ cmp.eq_ab \in {"True", "False"}
        /\ cmp.eq_ab = cmp.eq_ba
        /\ cmp.ne_ab = (IF cmp.eq_ab = "True" THEN "False" ELSE "True")

\* unequal trees whose comparison reaches the loop over the children
C10_Witness ==
    /\ pc = "compared" /\ cmp.eq_ab = "False"
    /\ heap[cmp.a].value = heap[cmp.b].value
    /\ Len(heap[cmp.a].children) = Len(heap[cmp.b].children)
    /\ heap[cmp.a].weight # heap[cmp.b].weight

(***************************************************************************)
(* DetectedClone and DetectionResult.  A clone's similarity s stands for   *)
(* the fraction s / SimScale, so weight * s orders the clones as           *)
(* weight * similarity does.                                               *)
(***************************************************************************)
DetectedClone(value, weight, nodes) ==
    [value      |-> value,
     weight     |-> weight,
     similarity |-> (weight * SimScale) \div nodes.baseline,
     nodes      |-> nodes]

CloneDict(c) ==
    [value |-> c.value, weight |-> c.weight,
     similarity |-> c.similarity, origins |-> c.nodes]

\* line 24: key=lambda c: c.weight * c.similarity
SortKey(c) == c.weight * c.similarity

Reverse(s) == [i \in 1..Len(s) |-> s[Len(s) + 1 - i]]

\* x goes behind every element whose key is not greater than its own.
InsertSorted(sorted, x) ==
    LET before == { i \in DOMAIN sorted : SortKey(sorted[i]) <= SortKey(x) }
        n      == Cardinality(before)
    IN [i \in 1..(Len(sorted) + 1) |->
            IF i <= n THEN sorted[i]
            ELSE IF i = n + 1 THEN x
            ELSE sorted[i - 1]]

RECURSIVE StableSortAscending(_)
StableSortAscending(s) ==
    IF s = <<>> THEN <<>>
    ELSE InsertSorted(StableSortAscending(SubSeq(s, 1, Len(s) - 1)), s[Len(s)])

\* An ascending sort followed by a reversal.
SortThenReverse(s) == Reverse(StableSortAscending(s))
\* line 24: list.sort(reverse=True, key=...) reverses the list, sorts it
\* stably in ascending key order and reverses the outcome.
ListSortReverse(s) == Reverse(StableSortAscending(Reverse(s)))

\* self.clones refers to the caller's list itself.
DetectionResultNoCopy(ls, clones) ==
    [lists |-> [ls EXCEPT ![clones] = ListSortReverse(@)], clones |-> clones]
\* lines 23-24: self.clones is a new list object, sorted in place.
DetectionResult(ls, clones) ==
    LET copy == Len(ls) + 1
    IN [lists  |-> [Append(ls, ls[clones]) EXCEPT ![copy] = ListSortReverse(@)],
        clones |-> copy]

BoundedSeqs(S, n) == UNION { [1..k -> S] : k \in 0..n }

InitResult ==
    /\ \E ws \in BoundedSeqs((1..MaxWeight) \X (0..SimScale), MaxClones) :
          given = [i \in DOMAIN ws |->
                      [value |-> "v", weight |-> ws[i][1],
                       similarity |-> ws[i][2], nodes |-> i]]
    /\ lists = <<given>>
    /\ arg = 1
    /\ self_clones = 0
    /\ json_out = <<>>
    /\ pc = "given"
    /\ heap = <<>> /\ module = 1
    /\ module_nodes = <<>> /\ node_queue = <<>> /\ flat = <<>> /\ ncalls = 0
    /\ cmp = IdleCmp
    /\ IodineIdle

\* lines 15-24
DetectionResultInit ==
    /\ pc = "given"
    /\ LET r == DetectionResult(lists, arg)
       IN /\ lists' = r.lists
          /\ self_clones' = r.clones
    /\ pc' = "constructed"
    /\ UNCHANGED <<arg, given, json_out, cmp>>
    /\ UNCHANGED treeVars /\ UNCHANGED iodineVars

\* lines 26-34
Json ==
    /\ pc = "constructed"
    /\ json_out' = [i \in DOMAIN lists[self_clones] |->
                        CloneDict(lists[self_clones][i])]
    /\ pc' = "dumped"
    /\ UNCHANGED <<lists, arg, given, self_clones, cmp>>
    /\ UNCHANGED treeVars /\ UNCHANGED iodineVars

NextResult == DetectionResultInit \/ Json

SpecResult == InitResult /\ [][NextResult]_vars

PositionIn(s, x) == CHOOSE i \in DOMAIN s : s[i] = x

(***************************************************************************)
(* C6: DetectionResult.clones is a permutation of the given list in        *)
(* non-increasing order of weight * similarity; clones with equal          *)
(* weight * similarity keep the relative order they had in the given list; *)
(* json() emits the records in the order of DetectionResult.clones.        *)
(***************************************************************************)
C6_SortedStablePermutation ==
    pc \in {"constructed", "dumped"} =>
        LET res == lists[self_clones] IN
        /\ Len(res) = Len(given)
        /\ \A i \in DOMAIN given : Occurrences(res, given[i]) = 1
        /\ \A i, j \in DOMAIN res :
               i < j => SortKey(res[i]) >= SortKey(res[j])
        /\ \A i, j \in DOMAIN given :
               (i < j /\ SortKey(given[i]) = SortKey(given[j]))
                   => PositionIn(res, given[i]) < PositionIn(res, given[j])
        /\ (pc = "dumped" =>
               /\ Len(json_out) = Len(res)
               /\ \A i \in DOMAIN res :
                      /\ json_out[i].origins = res[i].nodes
                      /\ json_out[i].weight = res[i].weight
                      /\ json_out[i].similarity = res[i].similarity)

\* a tie between two different clones, and an element that has to move
C6_Witness ==
    /\ pc = "dumped"
    /\ Len(given) >= 3
    /\ lists[self_clones] # given
    /\ \E i, j \in DOMAIN given :
          /\ i < j /\ SortKey(given[i]) = SortKey(given[j])
          /\ given[i].weight # given[j].weight

(***************************************************************************)
(* C7: constructing a DetectionResult leaves the caller's list with the    *)
(* elements, in the order, it had before the construction.                 *)
(***************************************************************************)
C7_CallerListUnchanged ==
    pc \in {"constructed", "dumped"} => lists[arg] = given

C7_Witness ==
    /\ pc = "constructed"
    /\ self_clones # arg
    /\ Len(given) >= 2
    /\ lists[self_clones] # given
    /\ lists[arg] = given

(***************************************************************************)
(* iodine.  pattern_collection answers each call with a list of patterns;  *)
(* a pattern is a possibly empty list of pattern nodes.  The number of     *)
(* patterns of an answer, and which of them are empty, is chosen freely at *)
(* each call; the k-th pattern, when it is not empty, has k nodes and its  *)
(* first node has match weight k.                                          *)
(***************************************************************************)
PatternOfShape(m1, m2, k, nonempty) ==
    [p \in 1..(IF nonempty THEN k ELSE 0) |->
        [value        |-> "v",
         match_weight |-> k - p + 1,
         nodes        |-> [origin |-> <<m1, m2, k>>, baseline |-> MaxClusters]]]

pattern_collection(m1, m2, shapes) ==
    [k \in DOMAIN shapes |-> PatternOfShape(m1, m2, k, shapes[k])]

\* The modules of the two lists are different objects.
InitIodine ==
    /\ \E nL, nR \in 0..MaxModules :
          /\ nL + nR <= MaxModules
          /\ module_list_1 = [i \in 1..nL |-> i]
          /\ module_list_2 = [j \in 1..nR |-> nL + j]
    /\ pos = <<1, 1>>
    /\ clusters = <<>>
    /\ engine_calls = <<>>
    /\ pc = "iodine"
    /\ lists = <<>> /\ arg = 0 /\ given = <<>> /\ self_clones = 0
    /\ json_out = <<>>
    /\ heap = <<>> /\ module = 1
    /\ module_nodes = <<>> /\ node_queue = <<>> /\ flat = <<>> /\ ncalls = 0
    /\ cmp = IdleCmp

LoopsDone == pos[1] > Len(module_list_1) \/ module_list_2 = <<>>

\* lines 19-22: one iteration of the inner loop.
IodineCompare ==
    /\ pc = "iodine"
    /\ ~LoopsDone
    /\ LET m1 == module_list_1[pos[1]]
           m2 == module_list_2[pos[2]]
       IN \E shapes \in BoundedSeqs(BOOLEAN, MaxClusters) :
             /\ clusters' = Append(clusters, pattern_collection(m1, m2, shapes))
             /\ engine_calls' = Append(engine_calls, <<m1, m2>>)
    /\ pos' = IF pos[2] < Len(module_list_2)
              THEN <<pos[1], pos[2] + 1>>
              ELSE <<pos[1] + 1, 1>>
    /\ UNCHANGED <<module_list_1, module_list_2, pc, cmp>>
    /\ UNCHANGED treeVars /\ UNCHANGED reportVars

\* lines 24-28: the clones of a list of cluster lists; err is set when
\* pattern[0] is evaluated on an empty pattern.
RECURSIVE ClonesOfPatterns(_, _), ClonesOfClusters(_, _)
ClonesOfPatterns(patterns, guarded) ==
    IF patterns = <<>> THEN [err |-> FALSE, clones |-> <<>>]
    ELSE LET pattern == Head(patterns)
             rest    == ClonesOfPatterns(Tail(patterns), guarded)
         IN IF pattern # <<>>
            THEN [err    |-> rest.err,
                  clones |-> <<DetectedClone(pattern[1].value,
                                             pattern[1].match_weight,
                                             pattern[1].nodes)>> \o rest.clones]
            ELSE IF guarded THEN rest
            ELSE [err |-> TRUE, clones |-> <<>>]
ClonesOfClusters(cls, guarded) ==
    IF cls = <<>> THEN [err |-> FALSE, clones |-> <<>>]
    ELSE LET first == ClonesOfPatterns(Head(cls), guarded)
             rest  == ClonesOfClusters(Tail(cls), guarded)
         IN [err    |-> first.err \/ rest.err,
             clones |-> first.clones \o rest.clones]

IodineReportBody(guarded) ==
    LET r == ClonesOfClusters(clusters, guarded)
    IN IF r.err
       THEN /\ pc' = "IndexError"
            /\ UNCHANGED reportVars
       ELSE LET d == DetectionResult(<<r.clones>>, 1)
            IN /\ lists' = d.lists
               /\ arg' = 1
               /\ given' = r.clones
               /\ self_clones' = d.clones
               /\ UNCHANGED json_out
               /\ pc' = "reported"

\* Variant that reads pattern[0] of every pattern.
IodineReportUnguarded ==
    /\ pc = "iodine"
    /\ LoopsDone
    /\ IodineReportBody(FALSE)
    /\ UNCHANGED cmp
    /\ UNCHANGED treeVars /\ UNCHANGED iodineVars

\* lines 24-30: the clones are collected and wrapped in a DetectionResult.
IodineReport ==
    /\ pc = "iodine"
    /\ LoopsDone
    /\ IodineReportBody(TRUE)
    /\ UNCHANGED cmp
    /\ UNCHANGED treeVars /\ UNCHANGED iodineVars

NextIodine == IodineCompare \/ IodineReport

SpecIodine == InitIodine /\ [][NextIodine]_vars

\* (call, position) of every non-empty pattern returned by the engine
NonEmptyPatterns ==
    { ck \in (DOMAIN clusters) \X (1..MaxClusters + 1) :
          ck[2] \in DOMAIN clusters[ck[1]] /\ clusters[ck[1]][ck[2]] # <<>> }

(***************************************************************************)
(* C8: iodine calls the matching engine exactly once for every ordered     *)
(* pair of a module of the first list and a module of the second, and the  *)
(* DetectionResult holds exactly one clone for every non-empty pattern     *)
(* returned by those calls; with an empty list, or without any non-empty   *)
(* pattern, the result is empty, and no error is raised.                   *)
(***************************************************************************)
C8_IodineOnePerPairAndCluster ==
    /\ pc # "IndexError"
    /\ pc = "reported" =>
        LET res == lists[self_clones] IN
        /\ Len(engine_calls) = Len(module_list_1) * Len(module_list_2)
        /\ \A i \in DOMAIN module_list_1, j \in DOMAIN module_list_2 :
               Occurrences(engine_calls, <<module_list_1[i], module_list_2[j]>>) = 1
        /\ Len(res) = Cardinality(NonEmptyPatterns)
        /\ \A ck \in NonEmptyPatterns :
               LET head == clusters[ck[1]][ck[2]][1] IN
               /\ head.nodes.origin = <<engine_calls[ck[1]][1], engine_calls[ck[1]][2], ck[2]>>
               /\ Cardinality({ i \in DOMAIN res :
                                  /\ res[i].nodes = head.nodes
                                  /\ res[i].weight = head.match_weight
                                  /\ res[i].value = head.value }) = 1
        /\ ((module_list_1 = <<>> \/ module_list_2 = <<>> \/ NonEmptyPatterns = {})
               => res = <<>>)

\* two calls, an empty pattern skipped and two clones reported
C8_Witness ==
    /\ pc = "reported"
    /\ Len(engine_calls) >= 2
    /\ Cardinality(NonEmptyPatterns) >= 2
    /\ \E c \in DOMAIN clusters : \E k \in DOMAIN clusters[c] : clusters[c][k] = <<>>
    /\ Len(lists[self_clones]) = Cardinality(NonEmptyPatterns)

====
